---- MODULE Spec2Model ----
(***************************************************************************)
(* news-orchestrator: the intent router, the dispatch graph, the action   *)
(* handlers, the resilient edge client (callEdge) and the request         *)
(* boundary (POST /orchestrate), modelled as one state machine per run.   *)
(*                                                                         *)
(* The code modelled is the latest revision of every file:                 *)
(*   src/src/graph.ts    lines 491-679  (router, handlers, buildGraph)     *)
(*   src/src/server.ts   lines 30-59    (POST /orchestrate)                *)
(*   src/unnamed/part_003               (tools.ts: callEdge, tools)        *)
(***************************************************************************)
EXTENDS Integers, Sequences, FiniteSets, TLC

(***************************************************************************)
(* JavaScript values.  Every value is a tagged record, so that undefined,  *)
(* null, strings, numbers, booleans, arrays and objects can be compared    *)
(* and so that truthiness, ?? , || and ?. are computed as JavaScript does. *)
(***************************************************************************)
Undefined == [t |-> "undefined"]
Null == [t |-> "null"]
Str(s) == [t |-> "string", v |-> s]
Num(n) == [t |-> "number", v |-> n]
Bool(b) == [t |-> "boolean", v |-> b]
Arr(s) == [t |-> "array", v |-> s]
Obj(f) == [t |-> "object", v |-> f]
EmptyObj == Obj(<<>>)

IsNullish(x) == x.t \in {"undefined", "null"}

Truthy(x) ==
  CASE x.t \in {"undefined", "null"} -> FALSE
    [] x.t = "boolean" -> x.v
    [] x.t = "string" -> x.v # ""
    [] x.t = "number" -> x.v # 0
    [] OTHER -> TRUE

\* a ?? b
Coalesce(a, b) == IF IsNullish(a) THEN b ELSE a

\* a || b
OrElse(a, b) == IF Truthy(a) THEN a ELSE b

\* o?.k , and o.k on a value that is not null or undefined
Get(o, k) == IF o.t = "object" /\ k \in DOMAIN o.v THEN o.v[k] ELSE Undefined

\* JSON.stringify of an object drops the keys whose value is undefined
Stringify(o) ==
  LET keep == {k \in DOMAIN o.v : o.v[k] # Undefined}
  IN  Obj([k \in keep |-> o.v[k]])

\* { ...a, ...b } : the keys of b win
Spread(a, b) ==
  Obj([k \in DOMAIN a.v \cup DOMAIN b.v |->
         IF k \in DOMAIN b.v THEN b.v[k] ELSE a.v[k]])

\* Array.prototype.slice(0, n)
Slice(s, n) == SubSeq(s, 1, IF Len(s) < n THEN Len(s) ELSE n)

(***************************************************************************)
(* Bounds of the model and constants of the program.                       *)
(***************************************************************************)
\* how many slots the Router extracts from one query at most
MaxSlots == 2
\* how many articles a topic fetch returns at most
MaxArticles == 5

\* callEdge(query, extra, tries = 2)
DefaultTries == 2
\* (news.result?.articles ?? []).slice(0, 3)
BriefCap == 3
\* state.max ?? 10 , state.max ?? 8 , state.max ?? 8 in the handlers
TopicDefaultMax == 10
LocalDefaultMax == 8
BriefDefaultMax == 8
\* topicNews(topic, max = 10) , aroundYou(city, max = 8, session_id)
ToolTopicMax == 10
ToolLocalMax == 8
\* .join("\n").slice(0, 15000)
ItemsBudget == 15000

(***************************************************************************)
(* The edge client: callEdge of tools.ts.                                  *)
(***************************************************************************)
\* what fetch() or the code after it can throw
AbortError == [name |-> "AbortError", message |-> "The user aborted a request."]
ConnRefused == [name |-> "FetchError", message |-> "request to EDGE_URL failed, reason: connect ECONNREFUSED"]
ConnReset == [name |-> "FetchError", message |-> "request to EDGE_URL failed, reason: socket hang up"]
NullDeref == [name |-> "TypeError", message |-> "Cannot read properties of null (reading 'ok')"]
NetErrors == {ConnRefused, ConnReset}

\* String(e) of an Error
ErrString(e) == e.name \o ": " \o e.message

\* the HTTP statuses the edge service answers with
Statuses == {200, 502}

\* `Edge non-JSON (${r.status})`
NonJsonError(status) == "Edge non-JSON (" \o ToString(status) \o ")"

\* r.text() after r.json() has consumed the body: the body is already used,
\* text() rejects and .catch(() => "") yields the empty string
TextAfterJson(raw) == ""

\* what one attempt of callEdge does: a new attempt, or a returned envelope
Retry == [retry |-> TRUE, env |-> Undefined]
Return(env) == [retry |-> FALSE, env |-> env]

\* mutant: the retry test is off by one (tries >= 0), a fourth attempt is made
OnCatchOneMore(e, tries) ==
  IF tries >= 0
  THEN Retry
  ELSE Return(Obj([ok |-> Bool(FALSE),
                   error |-> Str(IF e.name = "AbortError" THEN "Edge timeout"
                                                          ELSE ErrString(e))]))

\* mutant: every exhausted call is reported as a timeout
OnCatchAlwaysTimeout(e, tries) ==
  IF tries > 0
  THEN Retry
  ELSE Return(Obj([ok |-> Bool(FALSE), error |-> Str("Edge timeout")]))

\* catch (e) { clearTimeout(t); if (tries > 0) return callEdge(...); return {ok:false, error} }
OnCatch(e, tries) ==
  IF tries > 0
  THEN Retry
  ELSE Return(Obj([ok |-> Bool(FALSE),
                   error |-> Str(IF e.name = "AbortError" THEN "Edge timeout"
                                                          ELSE ErrString(e))]))

\* the inner catch of r.json(): the body could not be read or parsed
OnNonJson(status, raw) ==
  Return(Obj([ok |-> Bool(FALSE),
              error |-> Str(NonJsonError(status)),
              text |-> Str(TextAfterJson(raw))]))

\* mutant: the envelope of a retried call tells that it was retried
OnJsonTellsRetry(json, tries) ==
  IF IsNullish(json)
  THEN OnCatch(NullDeref, tries)
  ELSE IF ~Truthy(Get(json, "ok"))
       THEN Return(Obj([ok |-> Bool(FALSE),
                        error |-> OrElse(Get(json, "error"), Str("Edge returned ok=false"))]))
       ELSE IF tries < DefaultTries
            THEN Return(Obj([ok |-> Bool(TRUE), retried |-> Bool(TRUE),
                             result |-> Coalesce(Get(json, "result"), json)]))
            ELSE Return(Obj([ok |-> Bool(TRUE),
                             result |-> Coalesce(Get(json, "result"), json)]))

\* mutant: an answer with ok=false is retried like a transport failure
OnJsonRetriesNotOk(json, tries) ==
  IF IsNullish(json)
  THEN OnCatch(NullDeref, tries)
  ELSE IF ~Truthy(Get(json, "ok"))
       THEN IF tries > 0
            THEN Retry
            ELSE Return(Obj([ok |-> Bool(FALSE),
                             error |-> OrElse(Get(json, "error"), Str("Edge returned ok=false"))]))
       ELSE Return(Obj([ok |-> Bool(TRUE),
                        result |-> Coalesce(Get(json, "result"), json)]))

\* mutant: the error of the response is passed on as it is, without a default
OnJsonRawError(json, tries) ==
  IF IsNullish(json)
  THEN OnCatch(NullDeref, tries)
  ELSE IF ~Truthy(Get(json, "ok"))
       THEN Return(Obj([ok |-> Bool(FALSE), error |-> Get(json, "error")]))
       ELSE Return(Obj([ok |-> Bool(TRUE),
                        result |-> Coalesce(Get(json, "result"), json)]))

\* if (!json.ok) return {ok:false, error: json.error || "Edge returned ok=false"};
\* return {ok:true, result: json.result ?? json};   json.ok on null throws
OnJson(json, tries) ==
  IF IsNullish(json)
  THEN OnCatch(NullDeref, tries)
  ELSE IF ~Truthy(Get(json, "ok"))
       THEN Return(Obj([ok |-> Bool(FALSE),
                        error |-> OrElse(Get(json, "error"), Str("Edge returned ok=false"))]))
       ELSE Return(Obj([ok |-> Bool(TRUE),
                        result |-> Coalesce(Get(json, "result"), json)]))

\* mutant: r.json() has no catch of its own, its failure reaches the outer catch
OnBodyNoInnerCatch(b, status, tries) ==
  CASE b.k \in {"bodyerr", "nonjson"} ->
         OnCatch([name |-> "FetchError", message |-> "invalid json response body"], tries)
    [] b.k = "json" -> OnJson(b.v, tries)

\* what reading the body of a received response gives: the stream breaks,
\* the text is not JSON, or a JSON value
OnBody(b, status, tries) ==
  CASE b.k = "bodyerr" -> OnNonJson(status, "")
    [] b.k = "nonjson" -> OnNonJson(status, b.raw)
    [] b.k = "json" -> OnJson(b.v, tries)

\* body: JSON.stringify({ query, ...extra })
RequestBody(query, extra) == Stringify(Spread(Obj([query |-> Str(query)]), extra))

\* how an attempt ended: fetch was aborted by the timer, fetch rejected with
\* e, or a response with `status` arrived and reading its body gave b
NoError == [name |-> "", message |-> ""]
NoBody == [k |-> "none"]
NoOutcome == [k |-> "none", e |-> NoError, status |-> 0, b |-> NoBody]
AbortOutcome == [k |-> "abort", e |-> AbortError, status |-> 0, b |-> NoBody]
NetOutcome(e) == [k |-> "neterr", e |-> e, status |-> 0, b |-> NoBody]
BodyOutcome(b, status) == [k |-> b.k, e |-> NoError, status |-> status, b |-> b]

\* a call that has not been made.  st, query, extra, tries, status and env are
\* the call's own data; req (the body of the last request sent), clean (every
\* failed attempt so far failed in fetch) and last (how the latest finished
\* attempt ended) record its history; overdue tells that the attempt in
\* flight began more than 15 s ago; rank is the position of a summarization
\* call among the summarization calls of the run in the order they returned
NoCall ==
  [st |-> "none", query |-> "", extra |-> EmptyObj, tries |-> 0,
   req |-> Undefined, status |-> 0, clean |-> TRUE, last |-> NoOutcome,
   env |-> Undefined, overdue |-> FALSE, rank |-> 0]

\* mutant: the default of tries is 3, a call makes up to four attempts
NewCallThreeRetries(query, extra) ==
  [NoCall EXCEPT !.st = "fetch", !.query = query, !.extra = extra,
                 !.tries = DefaultTries + 1,
                 !.req = RequestBody(query, extra)]

\* callEdge(query, extra): the first attempt sends its request at once
NewCall(query, extra) ==
  [NoCall EXCEPT !.st = "fetch", !.query = query, !.extra = extra,
                 !.tries = DefaultTries,
                 !.req = RequestBody(query, extra)]

\* return callEdge(query, extra, tries - 1): a new controller, timer and request
RetryCall(call, o) ==
  [call EXCEPT !.st = "fetch", !.tries = call.tries - 1,
               !.req = RequestBody(call.query, call.extra), !.status = 0,
               !.clean = call.clean /\ o.k \in {"abort", "neterr"},
               !.last = o, !.overdue = FALSE]

\* the attempt of `call` ended with outcome o and step result res; when the
\* call returns, its frame (tries, the response) is gone and the envelope is left
Settle(call, o, res) ==
  IF res.retry
  THEN RetryCall(call, o)
  ELSE [call EXCEPT !.st = "done", !.tries = 0, !.status = 0, !.last = o,
                    !.env = res.env, !.overdue = FALSE]

\* the attempts a call in flight has made, the current one included
Attempts(call) == DefaultTries - call.tries + 1

(***************************************************************************)
(* tools.ts: the five tools, each one callEdge with its query and extra.   *)
(***************************************************************************)
\* topHeadlines(opts) -> callEdge("top headlines", opts || {})
TopHeadlines(opts) == NewCall("top headlines", OrElse(opts, EmptyObj))

\* topicNews(topic, max = 10) -> callEdge(`latest on ${topic}`, { max_results: max })
TopicNews(topic, max) ==
  NewCall("latest on " \o topic.v,
          Obj([max_results |-> IF max = Undefined THEN Num(ToolTopicMax) ELSE max]))

\* onThisDay(iso) -> callEdge(iso ? `events on ${iso}` : "major events today")
OnThisDay(iso) ==
  NewCall(IF Truthy(iso) THEN "events on " \o iso.v ELSE "major events today", EmptyObj)

\* aroundYou(city, max = 8, session_id) ->
\*   callEdge(city ? `news in ${city}` : "news around me", { max_results: max, session_id })
AroundYou(city, max, session_id) ==
  NewCall(IF Truthy(city) THEN "news in " \o city.v ELSE "news around me",
          Obj([max_results |-> IF max = Undefined THEN Num(ToolLocalMax) ELSE max,
               session_id |-> session_id]))

\* summarizeUrl(url) -> callEdge(`summarize ${url}`)
SummarizeUrl(url) == NewCall("summarize " \o url.v, EmptyObj)

(***************************************************************************)
(* graph.ts: the Router.                                                   *)
(***************************************************************************)
Intents == {"HEADLINES", "TOPIC", "BRIEF", "HISTORY", "LOCAL", "SUMMARIZE", "UNKNOWN"}
SlotNames == {"topic", "city", "dateISO", "url", "max"}

\* the values the structured extraction puts in a slot (string().nullable(),
\* number().nullable()): null, or one of these
TopicValues == {Str(""), Str("ai")}
SlotValue(k, topic) ==
  CASE k = "topic" -> topic
    [] k = "city" -> Str("Pune")
    [] k = "dateISO" -> Str("2024-01-26")
    [] k = "url" -> Str("https://n.example/a")
    [] k = "max" -> Num(5)

RawIntents == {Undefined} \cup {Str(i) : i \in Intents}

\* what llm.withStructuredOutput(schema).invoke(prompt) can return: an intent
\* (or none) and at most MaxSlots slots that are not null
RouterOutputs ==
  {[k \in SlotNames \cup {"intent"} |->
      IF k = "intent" THEN i ELSE IF k \in P THEN SlotValue(k, topic) ELSE Null] :
     i \in RawIntents, topic \in TopicValues,
     P \in {Q \in SUBSET SlotNames : Cardinality(Q) <= MaxSlots}}

\* return { intent: out.intent ?? "HEADLINES", topic: out.topic ?? undefined, ... }
RouterUpdate(out) ==
  [intent |-> Coalesce(out["intent"], Str("HEADLINES")),
   topic |-> Coalesce(out["topic"], Undefined),
   city |-> Coalesce(out["city"], Undefined),
   dateISO |-> Coalesce(out["dateISO"], Undefined),
   url |-> Coalesce(out["url"], Undefined),
   max |-> Coalesce(out["max"], Undefined)]

\* mutant: the switch has no default branch, an unlisted intent ends the run
RouteNoDefault(intent) ==
  CASE intent = Str("HEADLINES") -> "node_headlines"
    [] intent = Str("TOPIC") -> "node_topic"
    [] intent = Str("HISTORY") -> "node_history"
    [] intent = Str("LOCAL") -> "node_local"
    [] intent = Str("SUMMARIZE") -> "node_summarize"
    [] intent = Str("BRIEF") -> "node_brief"
    [] OTHER -> "END"

\* addConditionalEdges("node_router", (s) => { switch (s.intent) ... })
Route(intent) ==
  CASE intent = Str("HEADLINES") -> "node_headlines"
    [] intent = Str("TOPIC") -> "node_topic"
    [] intent = Str("HISTORY") -> "node_history"
    [] intent = Str("LOCAL") -> "node_local"
    [] intent = Str("SUMMARIZE") -> "node_summarize"
    [] intent = Str("BRIEF") -> "node_brief"
    [] OTHER -> "node_headlines"

HandlerNodes ==
  {"node_headlines", "node_topic", "node_history", "node_local", "node_summarize",
   "node_brief"}

(***************************************************************************)
(* graph.ts: what each handler returns, given the state and the envelope   *)
(* of its tool call.                                                       *)
(***************************************************************************)
\* the fixed questions of the slot checks
TopicQuestion == [followupQuestion |-> Str("Which topic?")]
SummarizeQuestion == [followupQuestion |-> Str("Please share the article link (URL).")]
BriefQuestion == [followupQuestion |-> Str("Brief on which topic?")]

\* if (!resp.ok) return { final: { error: resp.error } };
ErrorFinal(resp) == [final |-> Obj([error |-> Get(resp, "error")])]

HeadlinesReturn(resp) ==
  IF ~Truthy(Get(resp, "ok")) THEN ErrorFinal(resp)
  ELSE [headlines |-> Get(Get(resp, "result"), "articles"), final |-> Get(resp, "result")]

TopicReturn(resp) ==
  IF ~Truthy(Get(resp, "ok")) THEN ErrorFinal(resp)
  ELSE [topicArticles |-> Get(Get(resp, "result"), "articles"), final |-> Get(resp, "result")]

\* mutant: the history handler does not test resp.ok
HistoryReturnUnchecked(resp) ==
  [historyEvents |-> Get(resp, "result"), final |-> Get(resp, "result")]

HistoryReturn(resp) ==
  IF ~Truthy(Get(resp, "ok")) THEN ErrorFinal(resp)
  ELSE [historyEvents |-> Get(resp, "result"), final |-> Get(resp, "result")]

LocalReturn(resp) ==
  IF ~Truthy(Get(resp, "ok")) THEN ErrorFinal(resp)
  ELSE IF Truthy(Get(Get(resp, "result"), "need_followup"))
       THEN [followupQuestion |-> Get(Get(resp, "result"), "question")]
       ELSE [final |-> Get(resp, "result")]

\* mutant: a failed summarize call asks for the link again
SummarizeReturnAsksAgain(resp) ==
  IF ~Truthy(Get(resp, "ok")) THEN SummarizeQuestion
  ELSE [final |-> Get(resp, "result")]

SummarizeReturn(resp) ==
  IF ~Truthy(Get(resp, "ok")) THEN ErrorFinal(resp)
  ELSE [final |-> Get(resp, "result")]

(***************************************************************************)
(* graph.ts: doBrief, the fan-out over the first articles and the          *)
(* aggregation of the summaries.                                           *)
(***************************************************************************)
\* String.prototype.slice(0, n)
SliceStr(s, n) == IF Len(s) <= n THEN s ELSE SubSeq(s, 1, n)

IsSpace(ch) == ch \in {" ", "\n", "\t"}

\* String.prototype.trim()
RECURSIVE TrimLeft(_)
TrimLeft(s) ==
  IF Len(s) > 0 /\ IsSpace(SubSeq(s, 1, 1)) THEN TrimLeft(SubSeq(s, 2, Len(s))) ELSE s
RECURSIVE TrimRight(_)
TrimRight(s) ==
  IF Len(s) > 0 /\ IsSpace(SubSeq(s, Len(s), Len(s)))
  THEN TrimRight(SubSeq(s, 1, Len(s) - 1)) ELSE s
Trim(s) == TrimLeft(TrimRight(s))

\* const arts = (news.result?.articles ?? []).slice(0, 3); a value that is
\* neither null, undefined nor an array has no usable slice/map: a TypeError
ArticlesOf(news) == Coalesce(Get(Get(news, "result"), "articles"), Arr(<<>>))
ArtsThrows(news) == ArticlesOf(news).t # "array"
\* mutant: every fetched article is used, the list is not cut
ArtsOfAll(news) == ArticlesOf(news).v

ArtsOf(news) == Slice(ArticlesOf(news).v, BriefCap)

\* if (!a?.url) return null;  -- otherwise the article is summarized
NeedsSummary(a) == Truthy(Get(a, "url"))

\* if (!s.ok) return null; return { url: a.url, summary: s.result?.summary ?? "" };
SummaryOf(a, s) ==
  IF ~Truthy(Get(s, "ok")) THEN Null
  ELSE Obj([url |-> Get(a, "url"),
            summary |-> Coalesce(Get(Get(s, "result"), "summary"), Str(""))])

\* x.filter(Boolean)
RECURSIVE FilterTruthy(_)
FilterTruthy(xs) ==
  IF xs = <<>> THEN <<>>
  ELSE IF Truthy(Head(xs)) THEN <<Head(xs)>> \o FilterTruthy(Tail(xs))
       ELSE FilterTruthy(Tail(xs))

\* summaries.map((s) => `- ${s.summary}`).join("\n")
RECURSIVE JoinLines(_)
JoinLines(xs) ==
  IF xs = <<>> THEN ""
  ELSE IF Len(xs) = 1 THEN "- " \o Get(xs[1], "summary").v
       ELSE "- " \o Get(xs[1], "summary").v \o "\n" \o JoinLines(Tail(xs))

ItemsOf(summaries) == SliceStr(JoinLines(summaries), ItemsBudget)

\* { role: "user", content: `Topic: ${state.topic}\nSummaries:\n${items}` }
GenPrompt(topic, items) == "Topic: " \o topic.v \o "\nSummaries:\n" \o items

\* return { summaries, brief: synth.content?.toString().trim(),
\*          final: { type, topic, sources: arts, brief: synth.content } }
BriefReturn(topic, sources, summaries, content) ==
  [summaries |-> Arr(summaries),
   brief |-> Str(Trim(content)),
   final |-> Obj([type |-> Str("multi_source_brief"), topic |-> topic,
                  sources |-> Arr(sources), brief |-> Str(content)])]

(***************************************************************************)
(* What the collaborators can answer.                                      *)
(***************************************************************************)
ArticleUrl(i) == "https://n.example/" \o ToString(i)

\* n articles in order; article `miss` (if any) carries no url
ArtList(n, miss) ==
  [i \in 1..n |->
     IF i = miss THEN Obj([title |-> Str("t" \o ToString(i))])
     ELSE Obj([title |-> Str("t" \o ToString(i)), url |-> Str(ArticleUrl(i))])]

\* a topic fetch returns no article, one, or more than doBrief uses
ArticleCounts == {0, 1, MaxArticles}

ArticleLists == {ArtList(n, m) : n \in ArticleCounts, m \in 0..BriefCap}

OkBody(result) == Obj([ok |-> Bool(TRUE), result |-> result])

ErrorJson == Obj([ok |-> Bool(FALSE), error |-> Str("upstream failed")])

\* the JSON bodies the edge service answers the handler's own call with
PrimaryJson ==
  {Null, Num(7), EmptyObj,
   ErrorJson,
   Obj([ok |-> Bool(FALSE)]),
   Obj([ok |-> Bool(FALSE), error |-> Str("")]),
   Obj([ok |-> Bool(TRUE)]),
   OkBody(Null),
   OkBody(Obj([summary |-> Str("X")])),
   OkBody(Obj([need_followup |-> Bool(TRUE), question |-> Str("Which city?")])),
   OkBody(Obj([need_followup |-> Bool(TRUE)])),
   OkBody(Obj([articles |-> Str("none")]))}
  \cup {OkBody(Obj([articles |-> Arr(l)])) : l \in ArticleLists}

\* the JSON bodies, besides a summary, the edge service answers the first
\* summarization call with; the other summarization calls get a summary or
\* time out
SummaryJson == {ErrorJson, OkBody(EmptyObj)}

\* call 0 is the handler's own call; call i > 0 summarizes article i of a brief
CallIds == 0..BriefCap

\* the bodies that come with a response of call c with the given status: an
\* error status comes with an error page, a broken body or an error in JSON
BodiesOf(c, status) ==
  IF c = 0
  THEN {[k |-> "bodyerr"], [k |-> "nonjson", raw |-> "<html>Bad Gateway</html>"]}
       \cup {[k |-> "json", v |-> j] :
               j \in IF status = 200 THEN PrimaryJson ELSE {ErrorJson}}
  ELSE {[k |-> "json", v |-> j] : j \in IF c = 1 THEN SummaryJson ELSE {}}
       \cup {[k |-> "json", v |-> OkBody(Obj([summary |-> Str("S" \o ToString(c))]))]}

\* the summarization calls of a brief fail by timeout or by an ok=false answer
NetErrorsOf(c) == IF c = 0 THEN NetErrors ELSE {}
StatusesOf(c) == IF c = 0 THEN Statuses ELSE {200}

\* the calls whose response body can take longer than the attempt's 15 s
SlowBodyCalls == {0}

\* what llm.invoke returns as synth.content
GenContents == {"Brief.", " \n- a\n- b\nWhat to watch \n"}

\* what the model call can throw
LlmError == [name |-> "Error", message |-> "429 rate limited"]
TypeErrorArts == [name |-> "TypeError", message |-> "arts.map is not a function"]

(***************************************************************************)
(* The state of one run.                                                   *)
(***************************************************************************)
VARIABLES
  input,      \* the request body: query and session_id
  pc,         \* where the run is: the server, a node of the graph, END, ...
  hp,         \* where the running handler is suspended
  state,      \* the channels of the graph state
  calls,      \* the callEdge calls of the run, by CallIds
  arts,       \* doBrief's local `arts`
  gen,        \* the generation call of doBrief
  ran,        \* the nodes that have started, in order
  thrown,     \* the exception that ended the run, if any
  nreq,       \* how many requests the run has sent to the edge service
  response,   \* what the server has answered
  parked      \* the other run the process is serving, suspended at an await

vars == <<input, pc, hp, state, calls, arts, gen, ran, thrown, nreq, response,
          parked>>

EmptyState ==
  [intent |-> Undefined, topic |-> Undefined, city |-> Undefined,
   dateISO |-> Undefined, url |-> Undefined, max |-> Undefined,
   headlines |-> Undefined, topicArticles |-> Undefined, summaries |-> Undefined,
   brief |-> Undefined, historyEvents |-> Undefined,
   followupQuestion |-> Undefined, final |-> Undefined]

\* a node's return value is written to the channels it names
Update(st, upd) == [k \in DOMAIN st |-> IF k \in DOMAIN upd THEN upd[k] ELSE st[k]]

Requests ==
  [query : {Undefined, Str("what is new in ai")}, session_id : {Undefined, Str("sess-1")}]

\* the variables of a run whose request req has just reached the route handler
NewRun(req) ==
  [input |-> req, pc |-> "server", hp |-> "-", state |-> EmptyState,
   calls |-> [c \in CallIds |-> NoCall], arts |-> <<>>,
   gen |-> [st |-> "none", prompt |-> "", content |-> ""],
   ran |-> <<>>, thrown |-> NoError, nreq |-> 0, response |-> Undefined]

\* no other request is being served
NoRun == [NewRun([query |-> Undefined, session_id |-> Undefined]) EXCEPT !.pc = "none"]

Init ==
  /\ input \in Requests
  /\ pc = "server"
  /\ hp = "-"
  /\ state = EmptyState
  /\ calls = [c \in CallIds |-> NoCall]
  /\ arts = <<>>
  /\ gen = [st |-> "none", prompt |-> "", content |-> ""]
  /\ ran = <<>>
  /\ thrown = NoError
  /\ nreq = 0
  /\ response = Undefined
  /\ parked = NoRun

(***************************************************************************)
(* server.ts: POST /orchestrate.                                           *)
(***************************************************************************)
\* if (!query) return res.status(400).json({ ok: false, error: "query is required" });
ServerReject ==
  /\ pc = "server"
  /\ ~Truthy(input.query)
  /\ response' = Obj([ok |-> Bool(FALSE), error |-> Str("query is required")])
  /\ pc' = "responded"
  /\ UNCHANGED <<input, hp, state, calls, arts, gen, ran, thrown, nreq, parked>>

\* graph.invoke({ input }): START -> node_router, whose model call is sent
ServerInvoke ==
  /\ pc = "server"
  /\ Truthy(input.query)
  /\ pc' = "node_router"
  /\ ran' = Append(ran, "node_router")
  /\ UNCHANGED <<input, hp, state, calls, arts, gen, thrown, response, nreq, parked>>

\* the answer for a run that ended at END
ResponseOf(result) ==
  IF Truthy(result.followupQuestion)
  THEN Stringify(Obj([ok |-> Bool(TRUE), need_followup |-> Bool(TRUE),
                      question |-> result.followupQuestion]))
  ELSE Stringify(Obj([ok |-> Bool(TRUE), tool |-> result.intent,
                      result |-> result.final]))

ServerRespond ==
  /\ pc = "END"
  /\ response' = ResponseOf(state)
  /\ pc' = "responded"
  /\ UNCHANGED <<input, hp, state, calls, arts, gen, ran, thrown, nreq, parked>>

\* catch (e) { return res.status(500).json({ ok: false, error: e.message || String(e) }); }
ServerCatch ==
  /\ pc = "THROWN"
  /\ response' = Obj([ok |-> Bool(FALSE),
                      error |-> OrElse(Str(thrown.message), Str(ErrString(thrown)))])
  /\ pc' = "responded"
  /\ UNCHANGED <<input, hp, state, calls, arts, gen, ran, thrown, nreq, parked>>

(***************************************************************************)
(* graph.ts: the Router node and the conditional edge.                     *)
(***************************************************************************)
RouterReturn(out) ==
  /\ pc = "node_router"
  /\ state' = Update(state, RouterUpdate(out))
  /\ pc' = Route(state'.intent)
  /\ hp' = "enter"
  /\ UNCHANGED <<input, calls, arts, gen, ran, thrown, response, nreq, parked>>

\* mutant: a failed extraction falls back to HEADLINES
RouterThrowFallback ==
  /\ pc = "node_router"
  /\ thrown' = LlmError
  /\ state' = Update(state, [intent |-> Str("HEADLINES")])
  /\ pc' = "node_headlines"
  /\ hp' = "enter"
  /\ UNCHANGED <<input, calls, arts, gen, ran, response, nreq, parked>>

\* the structured-extraction call rejects: nothing catches it inside the graph
RouterThrow ==
  /\ pc = "node_router"
  /\ thrown' = LlmError
  /\ pc' = "THROWN"
  /\ UNCHANGED <<input, hp, state, calls, arts, gen, ran, response, nreq, parked>>

(***************************************************************************)
(* graph.ts: the handlers.  A handler that returns goes to END.            *)
(***************************************************************************)
\* the handler of node n starts and calls a tool
Enter(n, call) ==
  /\ pc = n /\ hp = "enter"
  /\ ran' = Append(ran, n)
  /\ calls' = [calls EXCEPT ![0] = call]
  /\ nreq' = nreq + 1
  /\ hp' = "call"
  /\ UNCHANGED <<input, pc, state, arts, gen, thrown, response, parked>>

\* the handler of node n starts and returns upd without calling a tool
Ask(n, upd) ==
  /\ pc = n /\ hp = "enter"
  /\ ran' = Append(ran, n)
  /\ state' = Update(state, upd)
  /\ pc' = "END" /\ hp' = "-"
  /\ UNCHANGED <<input, calls, arts, gen, thrown, response, nreq, parked>>

\* the handler of node n resumes with the envelope of its call and returns upd
Resume(n, upd) ==
  /\ pc = n /\ hp = "call" /\ calls[0].st = "done"
  /\ state' = Update(state, upd)
  /\ pc' = "END" /\ hp' = "-"
  /\ UNCHANGED <<input, calls, arts, gen, ran, thrown, response, nreq, parked>>

DoHeadlines ==
  Enter("node_headlines", TopHeadlines(Obj([max |-> Coalesce(state.max, Undefined)])))
DoHeadlinesResume == Resume("node_headlines", HeadlinesReturn(calls[0].env))

\* mutant: only an absent topic asks, an empty one is sent to the tool
DoTopicUndefinedOnly ==
  IF state.topic = Undefined
  THEN Ask("node_topic", TopicQuestion)
  ELSE Enter("node_topic", TopicNews(state.topic, Coalesce(state.max, Num(TopicDefaultMax))))

DoTopic ==
  IF ~Truthy(state.topic)
  THEN Ask("node_topic", TopicQuestion)
  ELSE Enter("node_topic", TopicNews(state.topic, Coalesce(state.max, Num(TopicDefaultMax))))
DoTopicResume == Resume("node_topic", TopicReturn(calls[0].env))

DoHistory == Enter("node_history", OnThisDay(state.dateISO))
DoHistoryResume == Resume("node_history", HistoryReturn(calls[0].env))

DoLocal ==
  Enter("node_local",
        AroundYou(state.city, Coalesce(state.max, Num(LocalDefaultMax)), input.session_id))
DoLocalResume == Resume("node_local", LocalReturn(calls[0].env))

DoSummarize ==
  IF ~Truthy(state.url)
  THEN Ask("node_summarize", SummarizeQuestion)
  ELSE Enter("node_summarize", SummarizeUrl(state.url))
DoSummarizeResume == Resume("node_summarize", SummarizeReturn(calls[0].env))

DoBrief ==
  IF ~Truthy(state.topic)
  THEN Ask("node_brief", BriefQuestion)
  ELSE Enter("node_brief", TopicNews(state.topic, Coalesce(state.max, Num(BriefDefaultMax))))

\* if (!news.ok) return { final: { error: news.error } };
DoBriefFetchFailed ==
  /\ ~Truthy(Get(calls[0].env, "ok"))
  /\ Resume("node_brief", ErrorFinal(calls[0].env))

\* the articles are no array: slice/map throws inside the handler
DoBriefThrow ==
  /\ pc = "node_brief" /\ hp = "call" /\ calls[0].st = "done"
  /\ Truthy(Get(calls[0].env, "ok"))
  /\ ArtsThrows(calls[0].env)
  /\ thrown' = TypeErrorArts
  /\ pc' = "THROWN" /\ hp' = "-"
  /\ UNCHANGED <<input, state, calls, arts, gen, ran, response, nreq, parked>>

\* mutant: the fan-out does not test news.ok
DoBriefFanOutUnchecked ==
  /\ pc = "node_brief" /\ hp = "call" /\ calls[0].st = "done"
  /\ ~ArtsThrows(calls[0].env)
  /\ arts' = ArtsOf(calls[0].env)
  /\ calls' = [c \in CallIds |->
                 IF c \in 1..Len(arts') /\ NeedsSummary(arts'[c])
                 THEN SummarizeUrl(Get(arts'[c], "url"))
                 ELSE calls[c]]
  /\ nreq' = nreq + Cardinality({c \in 1..Len(arts') : NeedsSummary(arts'[c])})
  /\ hp' = "fanout"
  /\ UNCHANGED <<input, pc, state, gen, ran, thrown, response, parked>>

\* arts.map(async (a) => ...): every summarizeUrl request is sent before the
\* handler suspends on Promise.all
DoBriefFanOut ==
  /\ pc = "node_brief" /\ hp = "call" /\ calls[0].st = "done"
  /\ Truthy(Get(calls[0].env, "ok"))
  /\ ~ArtsThrows(calls[0].env)
  /\ arts' = ArtsOf(calls[0].env)
  /\ calls' = [c \in CallIds |->
                 IF c \in 1..Len(arts') /\ NeedsSummary(arts'[c])
                 THEN SummarizeUrl(Get(arts'[c], "url"))
                 ELSE calls[c]]
  /\ nreq' = nreq + Cardinality({c \in 1..Len(arts') : NeedsSummary(arts'[c])})
  /\ hp' = "fanout"
  /\ UNCHANGED <<input, pc, state, gen, ran, thrown, response, parked>>

\* mutant: the results are collected in the order the calls returned
CollectedByCompletion ==
  LET started == {i \in 1..Len(arts) : NeedsSummary(arts[i])}
  IN  [k \in 1..Cardinality(started) |->
         LET i == CHOOSE j \in started : calls[j].rank = k
         IN  SummaryOf(arts[i], calls[i].env)]

\* mutant: the summary of the call that returned last is left out
CollectedWithoutLast ==
  LET started == {i \in 1..Len(arts) : NeedsSummary(arts[i])}
  IN  [i \in 1..Len(arts) |->
         IF NeedsSummary(arts[i]) /\ calls[i].rank < Cardinality(started)
         THEN SummaryOf(arts[i], calls[i].env) ELSE Null]

\* the settled results of Promise.all, by position
Collected ==
  [i \in 1..Len(arts) |->
     IF NeedsSummary(arts[i]) THEN SummaryOf(arts[i], calls[i].env) ELSE Null]

\* mutant: the generation call is sent without waiting for the summaries
DoBriefAggregateEarly ==
  /\ pc = "node_brief" /\ hp = "fanout"
  /\ gen' = [st |-> "inflight",
             prompt |-> GenPrompt(state.topic, ItemsOf(FilterTruthy(Collected))),
             content |-> ""]
  /\ hp' = "llm"
  /\ UNCHANGED <<input, pc, state, calls, arts, ran, thrown, response, nreq, parked>>

\* Promise.all resolved: filter, build the prompt, send the generation call
DoBriefAggregate ==
  /\ pc = "node_brief" /\ hp = "fanout"
  /\ \A c \in 1..BriefCap : calls[c].st \in {"none", "done"}
  /\ gen' = [st |-> "inflight",
             prompt |-> GenPrompt(state.topic, ItemsOf(FilterTruthy(Collected))),
             content |-> ""]
  /\ hp' = "llm"
  /\ UNCHANGED <<input, pc, state, calls, arts, ran, thrown, response, nreq, parked>>

DoBriefReturn(content) ==
  /\ pc = "node_brief" /\ hp = "llm"
  /\ gen' = [gen EXCEPT !.st = "done", !.content = content]
  /\ state' = Update(state, BriefReturn(state.topic, arts, FilterTruthy(Collected), content))
  /\ pc' = "END" /\ hp' = "-"
  /\ UNCHANGED <<input, calls, arts, ran, thrown, response, nreq, parked>>

\* the generation call rejects
DoBriefGenThrow ==
  /\ pc = "node_brief" /\ hp = "llm"
  /\ gen' = [gen EXCEPT !.st = "failed"]
  /\ thrown' = LlmError
  /\ pc' = "THROWN" /\ hp' = "-"
  /\ UNCHANGED <<input, state, calls, arts, ran, response, nreq, parked>>

(***************************************************************************)
(* tools.ts: the attempts of a call in flight.                             *)
(***************************************************************************)
\* the promise of summarization call c resolves after those of the
\* summarization calls that have returned before it
Returned(c, call) ==
  IF c # 0 /\ call.st = "done"
  THEN [call EXCEPT !.rank =
          1 + Cardinality({d \in CallIds \ {0, c} : calls[d].st = "done"})]
  ELSE call

\* mutant: one controller is shared, a timeout aborts every request in flight
FetchAbortShared(c) ==
  /\ calls[c].st = "fetch"
  /\ calls' = [d \in CallIds |->
                 IF calls[d].st = "fetch"
                 THEN Returned(d, Settle(calls[d], AbortOutcome,
                                         OnCatch(AbortError, calls[d].tries)))
                 ELSE calls[d]]
  /\ nreq' = nreq + Cardinality({d \in CallIds : calls'[d].st = "fetch"})
  /\ UNCHANGED <<input, pc, hp, state, arts, gen, ran, thrown, response, parked>>

\* mutant: the controller is a module-level object, a timeout aborts the
\* requests in flight of the other run as well
FetchAbortGlobal(c) ==
  /\ calls[c].st = "fetch"
  /\ calls' = [calls EXCEPT ![c] =
                 Returned(c, Settle(calls[c], AbortOutcome, OnCatch(AbortError, calls[c].tries)))]
  /\ nreq' = IF calls'[c].st = "fetch" THEN nreq + 1 ELSE nreq
  /\ parked' = [parked EXCEPT !.calls =
                  [d \in CallIds |->
                     IF parked.calls[d].st = "fetch"
                     THEN Settle(parked.calls[d], AbortOutcome,
                                 OnCatch(AbortError, parked.calls[d].tries))
                     ELSE parked.calls[d]]]
  /\ UNCHANGED <<input, pc, hp, state, arts, gen, ran, thrown, response>>

\* the 15 s timer fires before fetch settles: controller.abort()
FetchAbort(c) ==
  /\ calls[c].st = "fetch"
  /\ calls' = [calls EXCEPT ![c] =
                 Returned(c, Settle(calls[c], AbortOutcome, OnCatch(AbortError, calls[c].tries)))]
  /\ nreq' = IF calls'[c].st = "fetch" THEN nreq + 1 ELSE nreq
  /\ UNCHANGED <<input, pc, hp, state, arts, gen, ran, thrown, response, parked>>

\* fetch rejects with a connection error
FetchFail(c, e) ==
  /\ calls[c].st = "fetch"
  /\ calls' = [calls EXCEPT ![c] =
                 Returned(c, Settle(calls[c], NetOutcome(e), OnCatch(e, calls[c].tries)))]
  /\ nreq' = IF calls'[c].st = "fetch" THEN nreq + 1 ELSE nreq
  /\ UNCHANGED <<input, pc, hp, state, arts, gen, ran, thrown, response, parked>>

\* fetch resolves with the response headers: clearTimeout(t)
FetchRespond(c, status) ==
  /\ calls[c].st = "fetch"
  /\ calls' = [calls EXCEPT ![c].st = "body", ![c].status = status]
  /\ UNCHANGED <<input, pc, hp, state, arts, gen, ran, thrown, response, nreq, parked>>

\* the 15 s of the attempt run out while r.json() is still reading the body:
\* clearTimeout(t) ran when the headers arrived, so controller.abort() is
\* never called and the read goes on
BodyOverdue(c) ==
  /\ c \in SlowBodyCalls
  /\ calls[c].st = "body"
  /\ ~calls[c].overdue
  /\ calls' = [calls EXCEPT ![c].overdue = TRUE]
  /\ UNCHANGED <<input, pc, hp, state, arts, gen, ran, thrown, response, nreq, parked>>

\* r.json() settles
BodySettle(c, b) ==
  /\ calls[c].st = "body"
  /\ calls' = [calls EXCEPT ![c] =
                 Returned(c, Settle(calls[c], BodyOutcome(b, calls[c].status),
                                    OnBody(b, calls[c].status, calls[c].tries)))]
  /\ nreq' = IF calls'[c].st = "fetch" THEN nreq + 1 ELSE nreq
  /\ UNCHANGED <<input, pc, hp, state, arts, gen, ran, thrown, response, parked>>

Next ==
  \/ ServerReject
  \/ ServerInvoke
  \/ ServerRespond
  \/ ServerCatch
  \/ \E out \in RouterOutputs : RouterReturn(out)
  \/ RouterThrow
  \/ DoHeadlines
  \/ DoHeadlinesResume
  \/ DoTopic
  \/ DoTopicResume
  \/ DoHistory
  \/ DoHistoryResume
  \/ DoLocal
  \/ DoLocalResume
  \/ DoSummarize
  \/ DoSummarizeResume
  \/ DoBrief
  \/ DoBriefFetchFailed
  \/ DoBriefThrow
  \/ DoBriefFanOut
  \/ DoBriefAggregate
  \/ \E content \in GenContents : DoBriefReturn(content)
  \/ DoBriefGenThrow
  \/ \E c \in CallIds : FetchAbort(c)
  \/ \E c \in CallIds : \E e \in NetErrorsOf(c) : FetchFail(c, e)
  \/ \E c \in CallIds : \E status \in StatusesOf(c) : FetchRespond(c, status)
  \/ \E c \in CallIds : BodyOverdue(c)
  \/ \E c \in CallIds : \E b \in BodiesOf(c, calls[c].status) : BodySettle(c, b)

Spec == Init /\ [][Next]_vars

(***************************************************************************)
(* server.ts: two requests served by the one process.  Node runs one       *)
(* handler at a time and may resume the other at every await; a run that   *)
(* is not running keeps its locals and its graph state in `parked`.        *)
(***************************************************************************)
\* the variables of the running run
Frame ==
  [input |-> input, pc |-> pc, hp |-> hp, state |-> state, calls |-> calls,
   arts |-> arts, gen |-> gen, ran |-> ran, thrown |-> thrown, nreq |-> nreq,
   response |-> response]

\* the running run is suspended and the other one is resumed
Switch ==
  /\ parked.pc # "none"
  /\ parked' = Frame
  /\ input' = parked.input /\ pc' = parked.pc /\ hp' = parked.hp
  /\ state' = parked.state /\ calls' = parked.calls /\ arts' = parked.arts
  /\ gen' = parked.gen /\ ran' = parked.ran /\ thrown' = parked.thrown
  /\ nreq' = parked.nreq /\ response' = parked.response

\* the requests of the two runs
PairRequests == {[query |-> Str("what is new in ai"), session_id |-> Undefined]}

\* the JSON bodies the edge service answers with while two runs are served
PairBodies ==
  {ErrorJson,
   OkBody(Obj([summary |-> Str("X")])),
   OkBody(Obj([summary |-> Str("S1")])),
   OkBody(Obj([articles |-> Arr(ArtList(1, 0))])),
   OkBody(Obj([need_followup |-> Bool(TRUE), question |-> Str("Which city?")]))}

\* what the collaborators answer to a run while two runs are served: the
\* Router returns any of the intents with topic and url as its only slots, an
\* attempt ends by timeout or with status 200 and one of PairBodies in time
PairScope ==
  /\ state.intent # Undefined =>
       /\ state.intent \in {Str(i) : i \in Intents}
       /\ state.topic \in TopicValues
       /\ state.url # Undefined
       /\ state.city = Undefined /\ state.dateISO = Undefined
       /\ state.max = Undefined
  /\ \A c \in CallIds :
       /\ ~calls[c].overdue
       /\ calls[c].status \in {0, 200}
       /\ calls[c].last.k \in {"none", "abort", "json"}
       /\ calls[c].last.k = "json" => calls[c].last.b.v \in PairBodies

\* both requests have reached the route handler
InitPair ==
  /\ input \in PairRequests
  /\ pc = "server"
  /\ hp = "-"
  /\ state = EmptyState
  /\ calls = [c \in CallIds |-> NoCall]
  /\ arts = <<>>
  /\ gen = [st |-> "none", prompt |-> "", content |-> ""]
  /\ ran = <<>>
  /\ thrown = NoError
  /\ nreq = 0
  /\ response = Undefined
  /\ parked \in {NewRun(r) : r \in PairRequests}

\* the running run takes a step of its own, or the other run is resumed
NextPair ==
  \/ Next /\ PairScope'
  \/ Switch

SpecPair == InitPair /\ [][NextPair]_vars

(***************************************************************************)
(* Properties.                                                             *)
(***************************************************************************)
\* the run reached END: its handler returned and nothing was thrown
Completed == pc = "END" \/ (pc = "responded" /\ Len(ran) = 2 /\ thrown = NoError)

FollowupSet == state.followupQuestion # Undefined
FinalSet == state.final # Undefined

\* the handler the spec's transition rule names for an intent
SelectedHandler(intent) ==
  CASE intent = Str("TOPIC") -> "node_topic"
    [] intent = Str("BRIEF") -> "node_brief"
    [] intent = Str("HISTORY") -> "node_history"
    [] intent = Str("LOCAL") -> "node_local"
    [] intent = Str("SUMMARIZE") -> "node_summarize"
    [] intent \in {Str("HEADLINES"), Str("UNKNOWN"), Undefined} -> "node_headlines"

\* C1: the Router runs once and first; once it has returned, exactly the
\* handler selected from its intent runs, once; a run that reaches END ran the
\* Router and then that one handler, and no node starts after it (a run whose
\* Router call throws runs no handler at all)
C1_RouterThenOneHandler ==
  /\ Len(ran) <= 2
  /\ ran # <<>> => ran[1] = "node_router"
  /\ Len(ran) = 2 =>
       /\ pc # "node_router"
       /\ state.intent # Undefined
       /\ ran[2] \in HandlerNodes
       /\ ran[2] = SelectedHandler(state.intent)
  /\ (Len(ran) = 1 /\ pc \notin {"node_router", "THROWN", "responded"}) =>
       /\ pc = SelectedHandler(state.intent)
       /\ hp = "enter"
  /\ pc \in HandlerNodes => pc = SelectedHandler(state.intent)
  /\ pc = "END" => Len(ran) = 2
  /\ (pc = "responded" /\ thrown = NoError /\ Truthy(input.query)) => Len(ran) = 2

C1_Witness ==
  /\ pc = "END"
  /\ ran = <<"node_router", "node_headlines">>
  /\ state.intent = Str("UNKNOWN")

\* C2: the intent stored after the Router is never UNKNOWN, and the answer to
\* a run classified UNKNOWN carries tool "HEADLINES"
C2_UnknownBecomesHeadlines ==
  /\ state.intent # Str("UNKNOWN")
  /\ (pc = "responded" /\ Get(response, "tool") # Undefined) =>
       Get(response, "tool") # Str("UNKNOWN")

\* the slot an intent cannot do without, and the question asked for it
RequiredSlot(intent) ==
  CASE intent = Str("TOPIC") -> state.topic
    [] intent = Str("SUMMARIZE") -> state.url
    [] intent = Str("BRIEF") -> state.topic

FixedQuestion(intent) ==
  CASE intent = Str("TOPIC") -> Str("Which topic?")
    [] intent = Str("SUMMARIZE") -> Str("Please share the article link (URL).")
    [] intent = Str("BRIEF") -> Str("Brief on which topic?")

MissingSlotRun ==
  /\ state.intent \in {Str("TOPIC"), Str("SUMMARIZE"), Str("BRIEF")}
  /\ ~Truthy(RequiredSlot(state.intent))

\* C3: when the Router produced TOPIC, SUMMARIZE or BRIEF without the slot the
\* intent needs, no request is ever sent to the edge service, and the run ends
\* with the fixed question of the intent and no final payload
C3_MissingSlotAsks ==
  MissingSlotRun =>
    /\ nreq = 0
    /\ \A c \in CallIds : calls[c] = NoCall
    /\ pc \in HandlerNodes \cup {"END", "responded"}
    /\ pc \in {"END", "responded"} =>
         /\ state.followupQuestion = FixedQuestion(state.intent)
         /\ ~FinalSet
    /\ pc = "responded" =>
         response = Obj([ok |-> Bool(TRUE), need_followup |-> Bool(TRUE),
                         question |-> FixedQuestion(state.intent)])

C3_Witness ==
  /\ pc = "responded"
  /\ state.intent = Str("BRIEF")
  /\ state.topic = Undefined
  /\ Get(response, "question") = Str("Brief on which topic?")

\* C4: a run that completes ends with exactly one of a follow-up question and
\* a final payload
C4_ExactlyOneOutcome == Completed => (FollowupSet /\ ~FinalSet) \/ (FinalSet /\ ~FollowupSet)

\* C5 as stated: a run that ends with a follow-up sent no request, a run that
\* ends with a final payload sent one
C5_FollowupMeansNoCall ==
  Completed =>
    /\ FollowupSet => nreq = 0
    /\ FinalSet => nreq >= 1

\* C5 as amended: a run that ends with a follow-up sent no request unless its
\* handler is LOCAL, whose follow-up comes from the result of its one tool
\* call; a run that ends with a final payload made a tool call
C5_FollowupNoCallButLocal ==
  Completed =>
    /\ (FollowupSet /\ ran[2] # "node_local") => nreq = 0
    /\ (FollowupSet /\ ran[2] = "node_local") =>
         /\ calls[0].st = "done"
         /\ nreq \in 1..3
         /\ Get(calls[0].env, "ok") = Bool(TRUE)
         /\ Truthy(Get(Get(calls[0].env, "result"), "need_followup"))
         /\ state.followupQuestion = Get(Get(calls[0].env, "result"), "question")
    /\ FinalSet => (nreq >= 1 /\ calls[0].st = "done")

C5_Witness ==
  /\ pc = "END"
  /\ ran = <<"node_router", "node_local">>
  /\ state.followupQuestion = Str("Which city?")
  /\ nreq = 2

\* a step in which the attempt in flight of call c fails in fetch: the timer
\* aborts it or the connection fails
TransportFailureStep(c) ==
  /\ calls[c].st = "fetch"
  /\ calls'[c] # calls[c]
  /\ calls'[c].st # "body"

TransportErrorText(o) ==
  IF o.k = "abort" THEN "Edge timeout" ELSE o.e.name \o ": " \o o.e.message

ReturnOf(n, env) ==
  CASE n = "node_headlines" -> HeadlinesReturn(env)
    [] n = "node_topic" -> TopicReturn(env)
    [] n = "node_history" -> HistoryReturn(env)
    [] n = "node_local" -> LocalReturn(env)
    [] n = "node_summarize" -> SummarizeReturn(env)

\* what a call returns whose first attempt receives the response of outcome o
FirstAttempt(o) == OnBody(o.b, o.status, DefaultTries)

\* C8: a call that returns on the response of its second attempt, after a
\* first attempt that failed in fetch, returns the envelope a call returns
\* whose first attempt receives that response, and the handler's outcome is
\* the one it has for that envelope
C8_RetryIsInvisible ==
  /\ [][\A c \in CallIds :
          (/\ calls[c].st = "body" /\ calls'[c].st = "done"
           /\ Attempts(calls[c]) = 2 /\ calls[c].clean) =>
            /\ ~FirstAttempt(calls'[c].last).retry
            /\ calls'[c].env = FirstAttempt(calls'[c].last).env]_vars
  /\ [](( /\ Completed /\ ran[2] # "node_brief"
          /\ nreq = 2 /\ calls[0].clean
          /\ calls[0].last.k \in {"json", "nonjson", "bodyerr"}) =>
         LET upd == ReturnOf(ran[2], FirstAttempt(calls[0].last).env) IN
         /\ state.final = (IF "final" \in DOMAIN upd THEN upd.final ELSE Undefined)
         /\ state.followupQuestion =
              (IF "followupQuestion" \in DOMAIN upd THEN upd.followupQuestion
               ELSE Undefined))

C8_Witness ==
  /\ pc = "END"
  /\ ran[2] = "node_summarize"
  /\ nreq = 2
  /\ calls[0].clean
  /\ calls[0].last.k = "json"
  /\ state.final = Obj([summary |-> Str("X")])

\* C9: once an attempt has received a JSON object with ok=false the call has
\* returned, without a further attempt, {ok:false, error} with the error
\* text of the response (a fixed text when the response carries none)
C9_NotOkIsFinal ==
  \A c \in CallIds :
    LET o == calls[c].last IN
    (o.k = "json" /\ Get(o.b.v, "ok") = Bool(FALSE)) =>
      /\ calls[c].st = "done"
      /\ calls[c].env =
           Obj([ok |-> Bool(FALSE),
                error |-> IF Truthy(Get(o.b.v, "error")) THEN Get(o.b.v, "error")
                          ELSE Str("Edge returned ok=false")])

C9_Witness ==
  /\ pc = "END"
  /\ nreq = 1
  /\ calls[0].last.k = "json"
  /\ calls[0].last.b.v = ErrorJson
  /\ calls[0].env = Obj([ok |-> Bool(FALSE), error |-> Str("upstream failed")])
  /\ state.final = Obj([error |-> Str("upstream failed")])

\* the error texts a call returns when its last attempt failed in fetch
TransportErrors ==
  {Str("Edge timeout")} \cup {Str(e.name \o ": " \o e.message) : e \in NetErrors}

HandlerCallFailed == calls[0].st = "done" /\ ~Truthy(Get(calls[0].env, "ok"))

\* the error text of a call whose last attempt ended with outcome o
FailureText(o) ==
  CASE o.k \in {"abort", "neterr"} -> Str(TransportErrorText(o))
    [] o.k \in {"nonjson", "bodyerr"} -> Str(NonJsonError(o.status))
    [] o.k = "json" ->
         IF IsNullish(o.b.v) THEN Str(ErrString(NullDeref))
         ELSE OrElse(Get(o.b.v, "error"), Str("Edge returned ok=false"))

\* C11: whenever the handler's own tool call has failed (all attempts failed
\* in fetch, a body that is not JSON, a JSON answer that is not ok) nothing is
\* thrown, the envelope carries the error text of that failure, the handler's
\* next step ends the run at END, and the final payload is {error} with that text
C11_FailureBecomesErrorPayload ==
  /\ [](HandlerCallFailed =>
          LET err == Get(calls[0].env, "error") IN
          /\ err = FailureText(calls[0].last)
          /\ err.t = "string" /\ err.v # ""
          /\ thrown = NoError /\ pc # "THROWN"
          /\ \A c \in 1..BriefCap : calls[c].st = "none"
          /\ Completed => (state.final = Obj([error |-> err]) /\ ~FollowupSet)
          /\ pc = "responded" =>
               response = Obj([ok |-> Bool(TRUE), tool |-> state.intent,
                               result |-> Obj([error |-> err])]))
  /\ [][(HandlerCallFailed /\ hp = "call") =>
          /\ pc' = "END"
          /\ state'.final = Obj([error |-> Get(calls[0].env, "error")])
          /\ state'.followupQuestion = Undefined]_vars

C11_Witness ==
  /\ pc = "END"
  /\ ran[2] = "node_history"
  /\ calls[0].last.k = "nonjson"
  /\ state.final = Obj([error |-> Str("Edge non-JSON (200)")])

\* C12: no attempt is still in flight once its 15 s have run out: the timer
\* has aborted it by then
C12_AttemptBoundedByTimeout ==
  \A c \in CallIds : ~(calls[c].st \in {"fetch", "body"} /\ calls[c].overdue)

\* the run is a BRIEF run whose topic fetch succeeded and whose fan-out has started
BriefFannedOut ==
  /\ Len(ran) = 2 /\ ran[2] = "node_brief"
  /\ hp \in {"fanout", "llm"} \/ gen.st # "none"

\* the articles the topic fetch of the run returned, in returned order
Fetched == ArticlesOf(calls[0].env).v

\* C13: in a BRIEF run at most 3 articles are used, the first 3 in returned
\* order: a summarization call exists only for one of them and asks for its
\* url, and the sources of the final payload are those articles
C13_AtMostThreeSources ==
  /\ Len(arts) <= 3
  /\ nreq <= 3 + 3 * 3
  /\ BriefFannedOut =>
       /\ Len(arts) = (IF Len(Fetched) < 3 THEN Len(Fetched) ELSE 3)
       /\ \A i \in 1..Len(arts) : arts[i] = Fetched[i]
       /\ \A c \in CallIds \ {0} :
            calls[c].st # "none" =>
              /\ c <= 3 /\ c <= Len(Fetched)
              /\ Truthy(Get(Fetched[c], "url"))
              /\ calls[c].query = "summarize " \o Get(Fetched[c], "url").v
       /\ Completed =>
            /\ Get(state.final, "sources") = Arr(arts)
            /\ Len(Get(state.final, "sources").v) <= 3
  /\ ~BriefFannedOut => \A c \in CallIds \ {0} : calls[c].st = "none"

C13_Witness ==
  /\ pc = "END"
  /\ BriefFannedOut
  /\ Len(Fetched) = MaxArticles
  /\ Len(Get(state.final, "sources").v) = 3
  /\ \A c \in 1..3 : calls[c].st = "done"

\* the summarization calls of the run that returned a failure
FailedSummaries ==
  {c \in 1..BriefCap : calls[c].st = "done" /\ ~Truthy(Get(calls[c].env, "ok"))}

\* the list of the final payload that holds its summaries or sources
PayloadSources(final) ==
  IF Get(final, "summaries").t = "array" THEN Get(final, "summaries").v
  ELSE Get(final, "sources").v

\* C14: in a completed BRIEF run whose topic fetch returned 5 articles and
\* in which exactly one of the three summarization calls failed, the final
\* payload holds exactly 2 source summaries and the generation prompt is
\* built from the 2 surviving summaries only
C14_TwoOfThreeSurvive ==
  ( /\ Completed /\ BriefFannedOut
    /\ Len(Fetched) = 5
    /\ \A c \in 1..3 : calls[c].st = "done"
    /\ Cardinality(FailedSummaries) = 1 ) =>
      /\ Len(FilterTruthy(Collected)) = 2
      /\ gen.prompt = GenPrompt(state.topic, ItemsOf(FilterTruthy(Collected)))
      /\ Len(PayloadSources(state.final)) = 2

\* C15: in a BRIEF run whose topic fetch has returned a failure, no
\* summarization call and no generation call is ever made, at most the 3
\* requests of the fetch were sent, and the run ends at END with the fetch's
\* error as its final payload
C15_FailedFetchShortCircuits ==
  /\ []((Len(ran) = 2 /\ ran[2] = "node_brief" /\ HandlerCallFailed) =>
          /\ \A c \in CallIds \ {0} : calls[c].st = "none"
          /\ arts = <<>>
          /\ gen.st = "none"
          /\ nreq <= 3
          /\ pc \in {"node_brief", "END", "responded"}
          /\ Completed =>
               /\ state.final = Obj([error |-> Get(calls[0].env, "error")])
               /\ state.summaries = Undefined /\ state.brief = Undefined)
  /\ [][(pc = "node_brief" /\ hp = "call" /\ HandlerCallFailed) =>
          (pc' = "END" /\ nreq' = nreq /\ calls' = calls /\ gen' = gen)]_vars

C15_Witness ==
  /\ pc = "END"
  /\ ran[2] = "node_brief"
  /\ calls[0].last.k = "json"
  /\ nreq = 1
  /\ state.final = Obj([error |-> Str("upstream failed")])

\* the position in arts of the article with url u
ArtIndex(u) == CHOOSE i \in 1..Len(arts) : Get(arts[i], "url") = u

\* the summarization calls of the run that returned ok
Survivors ==
  {c \in 1..Len(arts) : calls[c].st = "done" /\ Truthy(Get(calls[c].env, "ok"))}

\* the k-th surviving call in the order of the articles
KthSurvivor(k) ==
  CHOOSE c \in Survivors : Cardinality({d \in Survivors : d < c}) = k - 1

\* the summaries of the surviving calls in the order of their articles
InArticleOrder ==
  [k \in 1..Cardinality(Survivors) |->
     SummaryOf(arts[KthSurvivor(k)], calls[KthSurvivor(k)].env)]

\* C16: once the generation call of a BRIEF run has been sent, whatever the
\* order in which the summarization calls returned, the prompt is built from
\* the summaries of the surviving calls in the order of their articles, and
\* these are the summaries of the completed run
C16_SummariesInArticleOrder ==
  (BriefFannedOut /\ gen.st # "none") =>
    /\ gen.prompt = GenPrompt(state.topic, ItemsOf(InArticleOrder))
    /\ Completed =>
         /\ state.summaries = Arr(InArticleOrder)
         /\ \A i, j \in 1..Len(state.summaries.v) :
              i < j => ArtIndex(Get(state.summaries.v[i], "url"))
                         < ArtIndex(Get(state.summaries.v[j], "url"))

C16_Witness ==
  /\ pc = "END"
  /\ BriefFannedOut
  /\ nreq = 12
  /\ calls[1].rank = 3 /\ calls[2].rank = 2 /\ calls[3].rank = 1
  /\ Len(state.summaries.v) = 3
  /\ Get(state.summaries.v[1], "url") = Str(ArticleUrl(1))

\* every summarization call of the run has settled
SummariesSettled == \A c \in CallIds \ {0} : calls[c].st \in {"none", "done"}

\* C17: in a BRIEF run a summarization call exists, and sends a request, only
\* after the topic fetch has returned for good, and the generation call is
\* sent, and exists, only when every summarization call has settled
C17_FetchThenSummariesThenGeneration ==
  /\ []( /\ (\E c \in CallIds \ {0} : calls[c].st # "none") =>
              (calls[0].st = "done" /\ Truthy(Get(calls[0].env, "ok")))
         /\ gen.st # "none" => SummariesSettled )
  /\ [][ /\ \A c \in CallIds \ {0} :
              (calls'[c] # calls[c] /\ calls'[c].st = "fetch") =>
                (calls[0].st = "done" /\ calls'[0] = calls[0])
         /\ calls[0].st = "done" => calls'[0] = calls[0]
         /\ (gen.st = "none" /\ gen'.st # "none") =>
              (SummariesSettled /\ calls' = calls /\ nreq' = nreq) ]_vars

C17_Witness ==
  /\ pc = "node_brief" /\ hp = "llm"
  /\ gen.st = "inflight"
  /\ \A c \in 1..3 : calls[c].st = "done"
  /\ nreq = 12

\* a step in which the timer of the attempt in flight of call c aborts its request
AbortStep(c) ==
  /\ calls[c].st = "fetch"
  /\ calls'[c] # calls[c]
  /\ calls'[c].st # "body"
  /\ calls'[c].last.k = "abort"

\* C18: a timeout aborts the request of its own attempt only: in that step no
\* other call changes, the run stays where it is and throws nothing, and the
\* call either has a fresh attempt in flight or has returned "Edge timeout";
\* no run ends with an abort as its exception, and a BRIEF run stays in its
\* handler, with nothing thrown, until its summarization calls have all
\* settled and it goes on to aggregation
C18_AbortIsLocal ==
  /\ [][\A c \in CallIds :
          AbortStep(c) =>
            /\ \A d \in CallIds \ {c} : calls'[d] = calls[d]
            /\ pc' = pc /\ hp' = hp /\ thrown' = thrown /\ gen' = gen /\ state' = state
            /\ IF Attempts(calls[c]) < 3
               THEN calls'[c].st = "fetch" /\ ~calls'[c].overdue /\ nreq' = nreq + 1
               ELSE /\ calls'[c].st = "done"
                    /\ calls'[c].env = Obj([ok |-> Bool(FALSE), error |-> Str("Edge timeout")])
                    /\ nreq' = nreq]_vars
  /\ []( /\ thrown.name # "AbortError"
         /\ hp = "fanout" => (pc = "node_brief" /\ thrown = NoError)
         /\ (hp = "llm" \/ gen.st # "none") => SummariesSettled )

C18_Witness ==
  /\ pc = "END"
  /\ BriefFannedOut
  /\ calls[1].st = "done" /\ calls[1].last.k = "abort" /\ calls[1].rank = 1
  /\ Get(calls[2].env, "ok") = Bool(TRUE) /\ calls[2].rank = 3
  /\ Get(calls[3].env, "ok") = Bool(TRUE)
  /\ Len(state.summaries.v) = 2

\* the structured-extraction call of the Router has failed
RouterFailed == thrown # NoError /\ Len(ran) = 1

\* C19: when the Router's extraction call has failed the run is a run-level
\* failure: no intent or slot was stored, no handler ran, no tool or
\* generation call was made, the Router is not entered again, and the server
\* answers {ok:false, error} with the error's message
C19_RouterFailureFailsRun ==
  /\ [](RouterFailed =>
          /\ pc \in {"THROWN", "responded"}
          /\ ran = <<"node_router">>
          /\ state = EmptyState
          /\ nreq = 0
          /\ \A c \in CallIds : calls[c].st = "none"
          /\ gen.st = "none"
          /\ pc = "responded" =>
               response = Obj([ok |-> Bool(FALSE), error |-> Str(thrown.message)]))
  /\ [][ /\ (pc = "node_router" /\ thrown' # NoError) => pc' = "THROWN"
         /\ pc \notin {"server", "node_router"} => pc' # "node_router" ]_vars

C19_Witness ==
  /\ pc = "responded"
  /\ RouterFailed
  /\ response = Obj([ok |-> Bool(FALSE), error |-> Str("429 rate limited")])

\* C20: a completed SUMMARIZE run whose tool call received a JSON object
\* {ok:true, result:R} has R, unchanged, as its final payload
C20_SummarizeRoundTrip ==
  LET body == calls[0].last.b IN
  ( /\ Completed /\ ran[2] = "node_summarize"
    /\ calls[0].st = "done" /\ calls[0].last.k = "json"
    /\ body.v.t = "object"
    /\ Get(body.v, "ok") = Bool(TRUE)
    /\ "result" \in DOMAIN body.v.v ) =>
      state.final = Get(body.v, "result")

\* the envelope a call returns when the edge service answers its request
\* with outcome o on every attempt
EnvelopeOf(o) ==
  IF o.k \in {"abort", "neterr"} THEN OnCatch(o.e, 0).env
  ELSE OnBody(o.b, o.status, 0).env

\* the summaries of a brief as a function of the answers to its calls
AnsweredSummaries ==
  LET A == Slice(ArticlesOf(EnvelopeOf(calls[0].last)).v, 3)
  IN  FilterTruthy([i \in 1..Len(A) |->
                      IF NeedsSummary(A[i])
                      THEN SummaryOf(A[i], EnvelopeOf(calls[i].last))
                      ELSE Null])

\* what the handler of the run returns as a function of the Router's output
\* (the slots in the state) and of the answers of the edge service and of
\* the generation call
AnsweredUpdate ==
  LET n == ran[2]
      E0 == EnvelopeOf(calls[0].last)
  IN  CASE n = "node_brief" ->
             IF ~Truthy(state.topic) THEN BriefQuestion
             ELSE IF ~Truthy(Get(E0, "ok")) THEN ErrorFinal(E0)
             ELSE BriefReturn(state.topic, Slice(ArticlesOf(E0).v, 3),
                              AnsweredSummaries, gen.content)
        [] n = "node_topic" ->
             IF ~Truthy(state.topic) THEN TopicQuestion ELSE TopicReturn(E0)
        [] n = "node_summarize" ->
             IF ~Truthy(state.url) THEN SummarizeQuestion ELSE SummarizeReturn(E0)
        [] OTHER -> ReturnOf(n, E0)

AnsweredField(k) == IF k \in DOMAIN AnsweredUpdate THEN AnsweredUpdate[k] ELSE Undefined

\* C21: the result of a run is a function of the request and of the answers
\* of the backends alone: the prompt sent to the generation call is built
\* from the answers to the summarization calls by article position, and the
\* final payload, the follow-up and the response are the ones computed from
\* the answers, whatever the order in which the calls returned and however
\* many attempts they took
C21_ResultIsFunctionOfAnswers ==
  /\ (BriefFannedOut /\ gen.st # "none") =>
       gen.prompt = GenPrompt(state.topic, ItemsOf(AnsweredSummaries))
  /\ Completed =>
       /\ state.final = AnsweredField("final")
       /\ state.followupQuestion = AnsweredField("followupQuestion")
       /\ state.summaries = AnsweredField("summaries")
       /\ pc = "responded" =>
            response = ResponseOf([intent |-> state.intent,
                                   followupQuestion |-> AnsweredField("followupQuestion"),
                                   final |-> AnsweredField("final")])

C21_Witness ==
  /\ pc = "responded"
  /\ BriefFannedOut
  /\ calls[1].rank = 2 /\ calls[2].rank = 3 /\ calls[3].rank = 1
  /\ nreq = 8
  /\ thrown = NoError
  /\ state.summaries = Arr(AnsweredSummaries)
  /\ Len(AnsweredSummaries) = 3
  /\ Get(Get(response, "result"), "type") = Str("multi_source_brief")

C24_RequestKeysAllowed ==
  \A c \in CallIds :
    calls[c].req # Undefined =>
      /\ "query" \in DOMAIN calls[c].req.v
      /\ calls[c].req.v["query"] = Str(calls[c].query)
      /\ DOMAIN calls[c].req.v \subseteq
           {"query", "max_results", "session_id", "country", "lang"}

\* C25: a run that was started is answered {ok:false, error} only when the
\* classification call or the generation call has thrown, and a run whose
\* tool call failed is answered {ok:true, tool, result} with the error in result
C25_NotOkOnlyForModelCallFailure ==
  (pc = "responded" /\ ran # <<>>) =>
    /\ Get(response, "ok") = Bool(FALSE) => (RouterFailed \/ gen.st = "failed")
    /\ HandlerCallFailed =>
         /\ Get(response, "ok") = Bool(TRUE)
         /\ Get(response, "tool") = state.intent
         /\ Get(response, "result") = Obj([error |-> Get(calls[0].env, "error")])

\* C26: in a BRIEF run that has returned its brief, the brief of the final
\* payload is the generated text without its leading and trailing whitespace
C26_FinalBriefIsTrimmed ==
  (Completed /\ BriefFannedOut /\ gen.st = "done") =>
    Get(state.final, "brief") = Str(Trim(gen.content))

\* C27: a call whose last attempt received the response headers and then
\* failed while reading the body has used its whole budget of requests and
\* reports the error as it does a connection error, not as a non-JSON response
C27_BodyReadFailureIsTransport ==
  \A c \in CallIds :
    (calls[c].st = "done" /\ calls[c].last.k = "bodyerr") =>
      /\ Get(calls[c].env, "error") # Str(NonJsonError(calls[c].last.status))
      /\ "text" \notin DOMAIN calls[c].env.v
      /\ nreq = DefaultTries + 1

\* C28: the envelope returned for a body that is not JSON carries that body
\* as its text
C28_RawTextPreserved ==
  \A c \in CallIds :
    (calls[c].st = "done" /\ calls[c].last.k = "nonjson") =>
      Get(calls[c].env, "text") = Str(calls[c].last.b.raw)

\* C29: a call sends no request after one of its attempts has received a
\* response: while a request is in flight every earlier attempt failed in fetch
C29_NoRequestAfterResponse ==
  \A c \in CallIds :
    calls[c].st = "fetch" => calls[c].last.k \in {"none", "abort", "neterr"}

\* C30: a run that has ended has invoked the generation call if and only if
\* it is a BRIEF run with a topic whose topic fetch returned ok=true
C30_GenerationExactlyInBrief ==
  pc \in {"END", "THROWN", "responded"} =>
    (gen.st # "none" <=>
       /\ Len(ran) = 2 /\ ran[2] = "node_brief"
       /\ Truthy(state.topic)
       /\ calls[0].st = "done"
       /\ Truthy(Get(calls[0].env, "ok")))

\* C22: with two runs served at once and resumed in every order, a step
\* either is a step of the running run that leaves the other run as it was,
\* or resumes the other run with both runs as they were; and the result of
\* the running run is the function of its own request and of the answers to
\* its own calls that it is when the run is served alone
C22_RunsAreIsolated ==
  /\ [](/\ C21_ResultIsFunctionOfAnswers
        /\ pc # "none" /\ parked.pc # "none")
  /\ [][ \/ parked' = parked
         \/ (parked' = Frame /\ Frame' = parked) ]_vars

C22_Witness ==
  /\ pc = "node_brief" /\ hp = "fanout"
  /\ calls[1].st = "fetch" /\ calls[1].tries = 1
  /\ nreq = 3
  /\ parked.pc = "node_summarize"
  /\ parked.calls[0].st = "fetch" /\ parked.calls[0].tries = 0
  /\ parked.nreq = 3
  /\ parked.state.intent # state.intent

\* the summarization calls the run has made
SummaryCalls == {c \in CallIds \ {0} : calls[c].st # "none"}

\* C31: a run sends no request before its handler has started, at most 3
\* requests when its handler is not node_brief, and in a BRIEF run at most 3
\* for the topic fetch plus 3 for each summarization call made, of which
\* there are at most 3: at most 12
C31_RequestsBounded ==
  /\ Len(ran) < 2 => nreq = 0
  /\ (Len(ran) = 2 /\ ran[2] # "node_brief") =>
       /\ nreq <= 3
       /\ SummaryCalls = {}
  /\ (Len(ran) = 2 /\ ran[2] = "node_brief") =>
       /\ Cardinality(SummaryCalls) <= 3
       /\ hp = "call" => nreq <= 3
       /\ nreq <= 3 + 3 * Cardinality(SummaryCalls)
       /\ nreq <= 12

C31_Witness ==
  /\ pc = "responded"
  /\ ran = <<"node_router", "node_brief">>
  /\ nreq = 12
  /\ calls[0].last.k = "json"
  /\ \A c \in 1..3 : calls[c].last.k = "abort"
  /\ state.summaries = Arr(<<>>)
  /\ gen.st = "done"

====
